---- MODULE Spec2Model ----
(***************************************************************************)
(* The Guild API (src/app/main.py): the mission role-filling workflow.     *)
(*                                                                         *)
(* The store is the relational database of src/app/models.py.  Rows are    *)
(* never deleted by the handlers modelled here, so a table is a sequence   *)
(* and a row's id is its index; NULL is 0.                                 *)
(*                                                                         *)
(* Every request runs in its own worker with its own Session               *)
(* (src/app/database.py get_db): the handler's queries load rows into the  *)
(* session, the handler decides on what it loaded, and db.commit() flushes *)
(* the pending writes and commits them as one transaction.  The engine is  *)
(* created without an isolation level, so a query sees what was committed  *)
(* when it ran; nothing is locked between a handler's query and its        *)
(* commit.  A request is therefore a first step (authentication and the    *)
(* queries up to the next point where other requests can commit) and one   *)
(* step per later query or commit.                                         *)
(***************************************************************************)
EXTENDS Integers, Sequences, FiniteSets, TLC

VARIABLES users, skills, user_skills, missions, roles, pitches, invites,
          notifications, req

\* The skill catalogue and the users' skill grants.
talent == <<skills, user_skills>>
store == <<users, skills, user_skills, missions, roles, pitches, invites, notifications>>
vars == <<users, skills, user_skills, missions, roles, pitches, invites, notifications, req>>

NULL == 0

\* ---- bounds of the model ----
MaxMissions == 2
MaxRoleSpecs == 2
MaxPitches == 2
MaxInvites == 2
MaxDrafts == 1
MaxNotifications == 4
MaxUsers == 5
MaxSkills == 2
MaxGrants == 3
MaxSearchLen == 2

\* Two workers serve requests concurrently.
Workers == {"w1", "w2"}
\* The worker of the runs in which requests are served one at a time.
Sequential == {"w1"}
\* The users that requests name as the user to draft or to invite.
Candidates == {2, 3}

\* ---- enums of src/app/models.py ----
UserRoleEnum == {"Member", "Manager", "Admin"}
SkillProficiencyEnum == {"Beginner", "Intermediate", "Advanced", "Expert"}
MissionStatusEnum == {"Proposed", "Active", "Completed"}
PitchStatusEnum == {"Submitted", "Accepted", "Rejected"}
InviteStatusEnum == {"Pending", "Accepted", "Declined"}

\* ---- row constructors (column defaults of src/app/models.py) ----
\* pwd_context.hash and pwd_context.verify: a hash is not the password, and
\* a password verifies against the hashes made of it and no other.
get_password_hash(password) == << "bcrypt", password >>
verify_password(plain_password, hashed_password) ==
    hashed_password = get_password_hash(plain_password)

\* hashed_password is nullable: NoHash is a user without a stored hash.
NoHash == << >>
User(email, hashed_password) ==
    [email |-> email, role |-> "Member", hashed_password |-> hashed_password]
Skill(name) == [name |-> name]
UserSkill(u, k, p) == [user_id |-> u, skill_id |-> k, proficiency |-> p]
Mission(lead) == [lead_user_id |-> lead, status |-> "Proposed"]
\* role_data is a role specification of the request: the required skill and
\* the required proficiency (the free-text description is left out).
MissionRoleCreate(k, p) == [skill_id_required |-> k, proficiency_required |-> p]
MissionRole(m, role_data) ==
    [mission_id |-> m, skill_id_required |-> role_data.skill_id_required,
     proficiency_required |-> role_data.proficiency_required,
     assignee_user_id |-> NULL]
MissionPitch(m, u) == [mission_id |-> m, user_id |-> u, status |-> "Submitted"]
MissionInvite(r, invited, inviting) ==
    [mission_role_id |-> r, invited_user_id |-> invited,
     inviting_user_id |-> inviting, status |-> "Pending"]

\* A link is "/missions/{id}", "/invites" or None.
MissionLink(m) == [path |-> "missions", id |-> m]
InvitesLink == [path |-> "invites", id |-> NULL]
NoLink == [path |-> "none", id |-> NULL]

\* A message is the f-string's template (kind) and the values it interpolates:
\* a user's name, a mission's title, a role's description (each stood for by
\* the row's id; 0 when the template has no such slot).
Message(kind, name, title, role) ==
    [kind |-> kind, name |-> name, title |-> title, role |-> role]
Notification(u, msg, link) ==
    [user_id |-> u, message |-> msg, link |-> link, is_read |-> FALSE]

\* ---- uniqueness constraints the tables declare, beyond the primary key id ----
\* Each is a set of column sets.  User declares its email unique;
\* MissionPitch and MissionInvite declare none.
UserUnique == {{"email"}}
\* Skill declares its name unique.
SkillUnique == {{"name"}}
MissionPitchUnique == {}
MissionInviteUnique == {}

\* db.add(row) followed by db.commit(): the row is inserted.
db_add_lost(table, row) == table
db_add_first(table, row) == << row >> \o table
db_add(table, row) == Append(table, row)

\* The IntegrityError a commit raises when a new row repeats a unique key.
IntegrityError(table, row, unique) ==
    \E key \in unique : \E i \in DOMAIN table : \A c \in key : table[i][c] = row[c]

\* ---- requests ----
\* op/user/id/arg/target: the handler, the authenticated caller and the
\* arguments; pc: where the handler stands; res: its outcome;
\* seen_*: the role assignee / row status the session loaded.
\* specs: the role specifications of a create_mission request;
\* name: the skill name of a search; found: the users the search returned;
\* hashed_password: the hash register_user made of the request's password.
Idle == [op |-> "none", user |-> NULL, id |-> NULL, arg |-> "", target |-> NULL,
         pc |-> "idle", res |-> "", seen_assignee |-> NULL, seen_status |-> "",
         specs |-> << >>, found |-> {}, name |-> << >>, hashed_password |-> NoHash]
Request(op, u, id, arg, t) == [Idle EXCEPT !.op = op, !.user = u, !.id = id,
                                           !.arg = arg, !.target = t]
\* A finished request keeps only what the response carries: the handler and
\* the outcome.
Done(op, res) == [Idle EXCEPT !.op = op, !.pc = "done", !.res = res]
Errors == {"NotFound", "Forbidden", "BadRequest", "Conflict"}

UserIds == DOMAIN users
MissionIds == DOMAIN missions
RoleIds == DOMAIN roles
PitchIds == DOMAIN pitches
InviteIds == DOMAIN invites

\* A worker takes a new request after the responses of the finished ones
\* were delivered (Respond).
Free(w) == req[w].pc = "idle"
Running(w) == req[w].pc \notin {"idle", "done"}

\* The model stops taking requests that would grow a table past its bound;
\* a request already in flight always has room to commit.
InFlight(op) == Cardinality({w \in Workers : req[w].op = op /\ Running(w)})
Sent(kind) == Cardinality({k \in DOMAIN notifications : notifications[k].message.kind = kind})
Room == Len(notifications)
          + Cardinality({w \in Workers : req[w].op # "create_mission" /\ Running(w)})
          < MaxNotifications

\* User 3 has no stored hash.
TheUsers == << [User("e1", get_password_hash("p1")) EXCEPT !.role = "Manager"],
              [User("e2", get_password_hash("p2")) EXCEPT !.role = "Admin"],
              User("e3", NoHash) >>
\* The catalogue holds one skill, named "Go".
TheSkills == << Skill(<<"G", "o">>) >>

\* The store after user 1 created a mission with two roles.
Init ==
    /\ users = TheUsers
    /\ skills = TheSkills
    /\ user_skills = {}
    /\ missions = << Mission(1) >>
    /\ roles = << MissionRole(1, MissionRoleCreate(1, "Advanced")),
                  MissionRole(1, MissionRoleCreate(1, "Expert")) >>
    /\ pitches = << >>
    /\ invites = << >>
    /\ notifications = << >>
    /\ req = [w \in Workers |-> Idle]

\* The store before any mission was created.
MissionInit ==
    /\ users = TheUsers
    /\ skills = TheSkills
    /\ user_skills = {}
    /\ missions = << >>
    /\ roles = << >>
    /\ pitches = << >>
    /\ invites = << >>
    /\ notifications = << >>
    /\ req = [w \in Workers |-> Idle]

\* ---- register_user ----
\* The query for a user with the email, and the 400 when there is one.
register_user(w, email, password) ==
    /\ Free(w)
    /\ IF \E u \in UserIds : users[u].email = email
       THEN req' = [req EXCEPT ![w] = Done("register_user", "BadRequest")]
       ELSE /\ Len(users) + InFlight("register_user") < MaxUsers
            /\ req' = [req EXCEPT ![w] = [Request("register_user", NULL, NULL, email, NULL)
                                            EXCEPT !.pc = "commit",
                                                   !.hashed_password = get_password_hash(password)]]
    /\ UNCHANGED store

\* The insert is committed.  The handler does not catch the IntegrityError
\* of the unique email, which ends the request as an internal server error.
register_user_commit(w) ==
    /\ req[w].op = "register_user" /\ req[w].pc = "commit"
    /\ LET db_user == User(req[w].arg, req[w].hashed_password)
       IN  IF IntegrityError(users, db_user, UserUnique)
           THEN /\ req' = [req EXCEPT ![w] = Done("register_user", "ServerError")]
                /\ UNCHANGED users
           ELSE /\ users' = db_add(users, db_user)
                /\ req' = [req EXCEPT ![w] = Done("register_user", "OK")]
    /\ UNCHANGED <<talent, missions, roles, pitches, invites, notifications>>

\* ---- login_for_access_token ----
\* The user is fetched by email; no user, a user without a hash and a
\* password that does not verify all return None.
authenticate_user_without_hash(email, password) ==
    LET found == {u \in UserIds : users[u].email = email}
    IN  IF found = {} THEN NULL
        ELSE LET user == CHOOSE u \in found : \A v \in found : u <= v
             IN  IF users[user].hashed_password = NoHash THEN user
                 ELSE IF ~verify_password(password, users[user].hashed_password) THEN NULL
                 ELSE user
authenticate_user(email, password) ==
    LET found == {u \in UserIds : users[u].email = email}
    IN  IF found = {} THEN NULL
        ELSE LET user == CHOOSE u \in found : \A v \in found : u <= v
             IN  IF users[user].hashed_password = NoHash THEN NULL
                 ELSE IF ~verify_password(password, users[user].hashed_password) THEN NULL
                 ELSE user

\* The 401 response and its detail; the token is issued to the user's email
\* (its role claim is the role stored with that user).
Unauthorized == [Done("login_for_access_token", "Unauthorized")
                    EXCEPT !.arg = "Incorrect email or password"]
login_for_access_token(w, email, password) ==
    /\ Free(w)
    /\ LET user == authenticate_user(email, password)
       IN  IF user = NULL
           THEN req' = [req EXCEPT ![w] = Unauthorized]
           ELSE req' = [req EXCEPT ![w] = [Done("login_for_access_token", "OK")
                                            EXCEPT !.arg = users[user].email]]
    /\ UNCHANGED store

\* ---- mark_notification_as_read ----
\* The query filters on the id and on the caller being the owner.
mark_notification_as_read_check_any(u, n) ==
    IF n \notin DOMAIN notifications THEN "NotFound" ELSE "OK"
mark_notification_as_read_check(u, n) ==
    IF n \notin DOMAIN notifications \/ notifications[n].user_id # u
    THEN "NotFound" ELSE "OK"

\* No request changes a notification's owner or sets is_read to anything but
\* True, so the query and the commit are one step.  The finished request
\* keeps the caller, the id and the flag it loaded.
mark_notification_as_read(w, u, n) ==
    /\ Free(w)
    /\ IF mark_notification_as_read_check(u, n) # "OK"
       THEN /\ req' = [req EXCEPT ![w] =
                        [Done("mark_notification_as_read", mark_notification_as_read_check(u, n))
                           EXCEPT !.user = u, !.id = n]]
            /\ UNCHANGED store
       ELSE /\ notifications' = [notifications EXCEPT ![n].is_read = TRUE]
            /\ req' = [req EXCEPT ![w] =
                        [Done("mark_notification_as_read", "OK")
                           EXCEPT !.user = u, !.id = n,
                                  !.seen_status = IF notifications[n].is_read
                                                  THEN "read" ELSE "unread"]]
            /\ UNCHANGED <<talent, users, missions, roles, pitches, invites>>

\* ---- auth.get_current_manager_user ----
IsManagerOnly(u) == users[u].role = "Manager"
IsManager(u) == users[u].role \in {"Manager", "Admin"}

\* ---- create_skill ----
\* A name is a string, a sequence of characters.  The insert is committed
\* without a query before it; the handler does not catch the IntegrityError
\* of the unique name, which ends the request as an internal server error.
create_skill(w, u, name) ==
    /\ Free(w)
    /\ IF ~IsManager(u)
       THEN /\ req' = [req EXCEPT ![w] = Done("create_skill", "Forbidden")]
            /\ UNCHANGED store
       ELSE LET db_skill == Skill(name)
            IN  IF IntegrityError(skills, db_skill, SkillUnique)
                THEN /\ req' = [req EXCEPT ![w] = Done("create_skill", "ServerError")]
                     /\ UNCHANGED store
                ELSE /\ Len(skills) < MaxSkills
                     /\ skills' = db_add(skills, db_skill)
                     /\ req' = [req EXCEPT ![w] = Done("create_skill", "OK")]
                     /\ UNCHANGED <<users, user_skills, missions, roles, pitches,
                                    invites, notifications>>

\* ---- add_skill_to_current_user ----
\* The query for the caller's grant of the skill; the session keeps the
\* proficiency it loaded ("" when there is no grant).
Grants(u, k) == {g \in user_skills : g.user_id = u /\ g.skill_id = k}

add_skill_to_current_user(w, u, k, p) ==
    /\ Free(w)
    /\ Cardinality(user_skills) + InFlight("add_skill_to_current_user") < MaxGrants
    /\ req' = [req EXCEPT ![w] = [Request("add_skill_to_current_user", u, k, p, NULL)
                  EXCEPT !.pc = "commit",
                         !.seen_status = IF Grants(u, k) = {} THEN ""
                                         ELSE (CHOOSE g \in Grants(u, k) : TRUE).proficiency]]
    /\ UNCHANGED store

\* The primary key (user_id, skill_id) of user_skills is taken.
PrimaryKeyNeverTaken(u, k) == FALSE
PrimaryKeyTaken(u, k) == Grants(u, k) # {}

\* A grant that was found is updated in place (the UPDATE is omitted when the
\* proficiency assigned is the one loaded, and raises StaleDataError when
\* the row was deleted in the meantime); otherwise a row is inserted, and
\* the commit raises IntegrityError when the skill does not exist (foreign
\* key) or the pair has a grant by now (primary key).  The handler catches
\* neither error.  The finished request keeps what its query loaded.
add_skill_to_current_user_commit(w) ==
    /\ req[w].op = "add_skill_to_current_user" /\ req[w].pc = "commit"
    /\ LET u == req[w].user
           k == req[w].id
           p == req[w].arg
           finished(res) == [Done("add_skill_to_current_user", res)
                               EXCEPT !.seen_status = req[w].seen_status]
       IN  IF req[w].seen_status # ""
           THEN IF p = req[w].seen_status
                THEN /\ req' = [req EXCEPT ![w] = finished("OK")]
                     /\ UNCHANGED user_skills
                ELSE IF Grants(u, k) = {}
                THEN /\ req' = [req EXCEPT ![w] = finished("ServerError")]
                     /\ UNCHANGED user_skills
                ELSE /\ user_skills' = (user_skills \ Grants(u, k)) \cup
                                       {UserSkill(g.user_id, g.skill_id, p) : g \in Grants(u, k)}
                     /\ req' = [req EXCEPT ![w] = finished("OK")]
           ELSE IF k \notin DOMAIN skills \/ PrimaryKeyTaken(u, k)
           THEN /\ req' = [req EXCEPT ![w] = finished("ServerError")]
                /\ UNCHANGED user_skills
           ELSE /\ user_skills' = user_skills \cup {UserSkill(u, k, p)}
                /\ req' = [req EXCEPT ![w] = finished("OK")]
    /\ UNCHANGED <<users, skills, missions, roles, pitches, invites, notifications>>

\* ---- remove_skill_from_current_user ----
\* The query for the caller's grant; without one the handler commits nothing.
remove_skill_from_current_user(w, u, k) ==
    /\ Free(w)
    /\ IF Grants(u, k) = {}
       THEN req' = [req EXCEPT ![w] = Done("remove_skill_from_current_user", "OK")]
       ELSE req' = [req EXCEPT ![w] = [Request("remove_skill_from_current_user", u, k, "", NULL)
                                        EXCEPT !.pc = "commit"]]
    /\ UNCHANGED store

\* The DELETE of the row that was loaded; a DELETE that matches no row, the
\* row being gone by now, is only warned about.
remove_skill_from_current_user_commit(w) ==
    /\ req[w].op = "remove_skill_from_current_user" /\ req[w].pc = "commit"
    /\ user_skills' = user_skills \ Grants(req[w].user, req[w].id)
    /\ req' = [req EXCEPT ![w] = Done("remove_skill_from_current_user", "OK")]
    /\ UNCHANGED <<users, skills, missions, roles, pitches, invites, notifications>>

\* ---- search_users_by_skill ----
\* lower() of a character, as ILIKE folds case.
Lower(c) == CASE c = "G" -> "g" [] c = "O" -> "o" [] c = "C" -> "c" [] OTHER -> c
LowerStr(str) == [k \in DOMAIN str |-> Lower(str[k])]

\* str LIKE pattern: in the pattern, % stands for any run of characters and
\* _ for any one character (the escape character is left out: the strings
\* of the model hold no backslash).
RECURSIVE Like(_, _)
Like(str, pattern) ==
    IF pattern = << >> THEN str = << >>
    ELSE IF Head(pattern) = "%"
         THEN Like(str, Tail(pattern)) \/ (str # << >> /\ Like(Tail(str), pattern))
         ELSE /\ str # << >>
              /\ Head(pattern) = "_" \/ Head(pattern) = Head(str)
              /\ Like(Tail(str), Tail(pattern))
ilike(str, pattern) == Like(LowerStr(str), LowerStr(pattern))

proficiency_hierarchy == << "Beginner", "Intermediate", "Advanced", "Expert" >>
required_index(proficiency) ==
    CHOOSE k \in DOMAIN proficiency_hierarchy : proficiency_hierarchy[k] = proficiency
valid_proficiencies(proficiency) ==
    {proficiency_hierarchy[k] : k \in required_index(proficiency)..Len(proficiency_hierarchy)}

\* The users joined with their grants and the grants' skills, filtered.
search_result(skill_name, proficiency) ==
    {u \in UserIds :
        \E g \in user_skills :
            /\ g.user_id = u
            /\ g.skill_id \in DOMAIN skills
            /\ ilike(skills[g.skill_id].name, << "%" >> \o skill_name \o << "%" >>)
            /\ g.proficiency \in valid_proficiencies(proficiency)}

search_users_by_skill(w, u, skill_name, proficiency) ==
    /\ Free(w)
    /\ req' = [req EXCEPT ![w] = [Done("search_users_by_skill", "OK")
                  EXCEPT !.name = skill_name, !.arg = proficiency,
                         !.found = search_result(skill_name, proficiency)]]
    /\ UNCHANGED store

\* ---- create_mission ----
\* Authorisation, then the mission row is committed on its own.
create_mission(w, u, role_specs) ==
    /\ Free(w)
    /\ IF ~IsManager(u)
       THEN /\ req' = [req EXCEPT ![w] = [Done("create_mission", "Forbidden") EXCEPT !.user = u]]
            /\ UNCHANGED store
       ELSE /\ Len(missions) < MaxMissions
            /\ missions' = db_add(missions, Mission(u))
            /\ req' = [req EXCEPT ![w] = [Request("create_mission", u, Len(missions) + 1, "", NULL)
                                            EXCEPT !.pc = "roles", !.specs = role_specs]]
            /\ UNCHANGED <<talent, users, roles, pitches, invites, notifications>>

\* The role rows are added, one per specification and in their order, and
\* committed in a second transaction.
RoleRowsReversed(m, role_specs) ==
    [k \in DOMAIN role_specs |-> MissionRole(m, role_specs[Len(role_specs) + 1 - k])]
RoleRows(m, role_specs) == [k \in DOMAIN role_specs |-> MissionRole(m, role_specs[k])]

\* skill_id_required is a foreign key to skills: the commit raises
\* IntegrityError when a specification names a skill that does not exist.
\* The handler does not catch it, the transaction of the roles is rolled
\* back and the request ends as an internal server error; the mission row,
\* committed before, stays.
SkillMissing(role_specs) ==
    \E k \in DOMAIN role_specs : role_specs[k].skill_id_required \notin DOMAIN skills

create_mission_roles(w) ==
    /\ req[w].op = "create_mission" /\ req[w].pc = "roles"
    /\ IF SkillMissing(req[w].specs)
       THEN /\ req' = [req EXCEPT ![w] = [Done("create_mission", "ServerError")
                                            EXCEPT !.user = req[w].user]]
            /\ UNCHANGED roles
       ELSE /\ roles' = roles \o RoleRows(req[w].id, req[w].specs)
            /\ req' = [req EXCEPT ![w] = [Done("create_mission", "OK")
                                            EXCEPT !.user = req[w].user]]
    /\ UNCHANGED <<talent, users, missions, pitches, invites, notifications>>

\* ---- update_mission_status ----
\* The mission is looked up first, then its lead is compared with the caller.
update_mission_status_check_anyone(u, m) ==
    IF m \notin MissionIds THEN "NotFound" ELSE "OK"
update_mission_status_check(u, m) ==
    IF m \notin MissionIds THEN "NotFound"
    ELSE IF missions[m].lead_user_id # u THEN "Forbidden"
    ELSE "OK"

update_mission_status(w, u, m, s) ==
    /\ Free(w)
    /\ IF update_mission_status_check(u, m) # "OK"
       THEN req' = [req EXCEPT ![w] = Done("update_mission_status", update_mission_status_check(u, m))]
       ELSE req' = [req EXCEPT ![w] = [Request("update_mission_status", u, m, s, NULL)
                          EXCEPT !.pc = "commit", !.seen_status = missions[m].status]]
    /\ UNCHANGED store

\* As in update_pitch_status_commit, the UPDATE is omitted when the status
\* assigned is the status the session loaded.
update_mission_status_commit_final(w) ==
    /\ req[w].op = "update_mission_status" /\ req[w].pc = "commit"
    /\ missions' = IF req[w].seen_status # "Completed"
                   THEN [missions EXCEPT ![req[w].id].status = req[w].arg] ELSE missions
    /\ req' = [req EXCEPT ![w] = [Done("update_mission_status", "OK")
                                    EXCEPT !.seen_status = req[w].seen_status]]
    /\ UNCHANGED <<talent, users, roles, pitches, invites, notifications>>
update_mission_status_commit(w) ==
    /\ req[w].op = "update_mission_status" /\ req[w].pc = "commit"
    /\ missions' = IF req[w].arg # req[w].seen_status
                   THEN [missions EXCEPT ![req[w].id].status = req[w].arg] ELSE missions
    /\ req' = [req EXCEPT ![w] = [Done("update_mission_status", "OK")
                                    EXCEPT !.seen_status = req[w].seen_status]]
    /\ UNCHANGED <<talent, users, roles, pitches, invites, notifications>>

\* ---- pitch_for_mission ----
\* The only row read is the mission, which no handler changes or deletes, so
\* the query and the commit are one step.
pitch_for_mission(w, u, m) ==
    /\ Free(w)
    /\ IF m \notin MissionIds
       THEN /\ req' = [req EXCEPT ![w] = Done("pitch_for_mission", "NotFound")]
            /\ UNCHANGED store
       ELSE LET db_pitch == MissionPitch(m, u)
                notification == Notification(missions[m].lead_user_id,
                                    Message("pitched", u, m, NULL), MissionLink(m))
            IN  IF IntegrityError(pitches, db_pitch, MissionPitchUnique)
                THEN /\ req' = [req EXCEPT ![w] = Done("pitch_for_mission", "Conflict")]
                     /\ UNCHANGED store
                ELSE /\ Len(pitches) < MaxPitches
                     /\ Room
                     /\ pitches' = db_add(pitches, db_pitch)
                     /\ notifications' = db_add(notifications, notification)
                     /\ req' = [req EXCEPT ![w] = Done("pitch_for_mission", "OK")]
                     /\ UNCHANGED <<talent, users, missions, roles, invites>>

\* ---- update_pitch_status ----
\* The query loads the pitch with its mission; a missing pitch and a caller
\* who is not the mission's lead get the same 404.
update_pitch_status_check(u, p) ==
    IF p \notin PitchIds \/ missions[pitches[p].mission_id].lead_user_id # u
    THEN "NotFound" ELSE "OK"

update_pitch_status(w, u, p, s) ==
    /\ Free(w)
    /\ IF update_pitch_status_check(u, p) # "OK"
       THEN req' = [req EXCEPT ![w] = Done("update_pitch_status", update_pitch_status_check(u, p))]
       ELSE /\ Room
            /\ req' = [req EXCEPT ![w] = [Request("update_pitch_status", u, p, s, NULL)
                          EXCEPT !.pc = "commit", !.seen_status = pitches[p].status]]
    /\ UNCHANGED store

\* The flush writes a column only when the value assigned differs from the
\* value the session loaded (the unit of work compares the two), so the
\* UPDATE is omitted when the handler assigns what it read.
\* The user notified of the decision: the pitcher.
pitch_mission_lead(p) == missions[pitches[p].mission_id].lead_user_id
pitch_user_id(p) == pitches[p].user_id

update_pitch_status_commit(w) ==
    /\ req[w].op = "update_pitch_status" /\ req[w].pc = "commit"
    /\ LET p == req[w].id
           s == req[w].arg
           status_text == IF s = "Accepted" THEN "pitch_accepted" ELSE "pitch_rejected"
           notification == Notification(pitch_user_id(p),
                               Message(status_text, NULL, pitches[p].mission_id, NULL),
                               MissionLink(pitches[p].mission_id))
       IN  /\ pitches' = IF s # req[w].seen_status
                         THEN [pitches EXCEPT ![p].status = s] ELSE pitches
           /\ notifications' = db_add(notifications, notification)
           /\ req' = [req EXCEPT ![w] = Done("update_pitch_status", "OK")]
    /\ UNCHANGED <<talent, users, missions, roles, invites>>

\* ---- draft_user_for_role ----
\* Role, mission and user are looked up in this order; the role's assignee
\* is loaded but never examined.
draft_user_for_role_check_unfilled(u, r, t) ==
    IF r \notin RoleIds THEN "NotFound"
    ELSE IF missions[roles[r].mission_id].lead_user_id # u THEN "Forbidden"
    ELSE IF t \notin UserIds THEN "NotFound"
    ELSE IF roles[r].assignee_user_id # NULL THEN "Conflict"
    ELSE "OK"
draft_user_for_role_check_anyone(u, r, t) ==
    IF r \notin RoleIds THEN "NotFound"
    ELSE IF t \notin UserIds THEN "NotFound"
    ELSE "OK"
draft_user_for_role_check(u, r, t) ==
    IF r \notin RoleIds THEN "NotFound"
    ELSE IF missions[roles[r].mission_id].lead_user_id # u THEN "Forbidden"
    ELSE IF t \notin UserIds THEN "NotFound"
    ELSE "OK"

draft_user_for_role(w, u, r, t) ==
    /\ Free(w)
    /\ IF draft_user_for_role_check(u, r, t) # "OK"
       THEN req' = [req EXCEPT ![w] = Done("draft_user_for_role", draft_user_for_role_check(u, r, t))]
       ELSE /\ Room
            /\ Sent("drafted") + InFlight("draft_user_for_role") < MaxDrafts
            /\ req' = [req EXCEPT ![w] = [Request("draft_user_for_role", u, r, "", t)
                          EXCEPT !.pc = "commit", !.seen_assignee = roles[r].assignee_user_id]]
    /\ UNCHANGED store

draft_user_for_role_commit_unassign(w) ==
    /\ req[w].op = "draft_user_for_role" /\ req[w].pc = "commit"
    /\ LET r == req[w].id
           t == req[w].target
           m == roles[r].mission_id
           notification == Notification(t, Message("drafted", NULL, m, r), MissionLink(m))
       IN  /\ roles' = IF t # req[w].seen_assignee
                       THEN [roles EXCEPT ![r].assignee_user_id = t]
                       ELSE [roles EXCEPT ![r].assignee_user_id = NULL]
           /\ notifications' = db_add(notifications, notification)
           /\ req' = [req EXCEPT ![w] = Done("draft_user_for_role", "OK")]
    /\ UNCHANGED <<talent, users, missions, pitches, invites>>

draft_user_for_role_commit(w) ==
    /\ req[w].op = "draft_user_for_role" /\ req[w].pc = "commit"
    /\ LET r == req[w].id
           t == req[w].target
           m == roles[r].mission_id
           notification == Notification(t, Message("drafted", NULL, m, r), MissionLink(m))
       IN  /\ roles' = IF t # req[w].seen_assignee
                       THEN [roles EXCEPT ![r].assignee_user_id = t] ELSE roles
           /\ notifications' = db_add(notifications, notification)
           /\ req' = [req EXCEPT ![w] = Done("draft_user_for_role", "OK")]
    /\ UNCHANGED <<talent, users, missions, pitches, invites>>

\* ---- create_invite ----
\* First query: the role with its mission, and the checks made on it.
create_invite_role_check_unfilled(u, r) ==
    IF ~IsManager(u) THEN "Forbidden"
    ELSE IF r \notin RoleIds THEN "NotFound"
    ELSE IF missions[roles[r].mission_id].lead_user_id # u THEN "Forbidden"
    ELSE "OK"
create_invite_role_check(u, r) ==
    IF ~IsManager(u) THEN "Forbidden"
    ELSE IF r \notin RoleIds THEN "NotFound"
    ELSE IF missions[roles[r].mission_id].lead_user_id # u THEN "Forbidden"
    ELSE IF roles[r].assignee_user_id # NULL THEN "BadRequest"
    ELSE "OK"

create_invite(w, u, r, t) ==
    /\ Free(w)
    /\ IF create_invite_role_check(u, r) # "OK"
       THEN req' = [req EXCEPT ![w] = Done("create_invite", create_invite_role_check(u, r))]
       ELSE /\ Room
            /\ Len(invites) + InFlight("create_invite") < MaxInvites
            /\ req' = [req EXCEPT ![w] = [Request("create_invite", u, r, "", t)
                          EXCEPT !.pc = "check"]]
    /\ UNCHANGED store

\* Second and third query: the invited user, then a Pending invite for the
\* same (role, user).
existing_invite_any_status(r, t) ==
    {i \in InviteIds : /\ invites[i].mission_role_id = r
                       /\ invites[i].invited_user_id = t}
existing_invite(r, t) ==
    {i \in InviteIds : /\ invites[i].mission_role_id = r
                       /\ invites[i].invited_user_id = t
                       /\ invites[i].status = "Pending"}

create_invite_check(w) ==
    /\ req[w].op = "create_invite" /\ req[w].pc = "check"
    /\ LET r == req[w].id
           t == req[w].target
       IN  IF t \notin UserIds
           THEN req' = [req EXCEPT ![w] = Done("create_invite", "NotFound")]
           ELSE IF existing_invite(r, t) # {}
           THEN req' = [req EXCEPT ![w] = Done("create_invite", "Conflict")]
           ELSE req' = [req EXCEPT ![w].pc = "commit"]
    /\ UNCHANGED store

\* The invite and its notification are inserted in one commit.  The handler
\* does not catch IntegrityError, and the table declares no unique key that
\* could raise it.
create_invite_commit(w) ==
    /\ req[w].op = "create_invite" /\ req[w].pc = "commit"
    /\ LET r == req[w].id
           t == req[w].target
           u == req[w].user
           m == roles[r].mission_id
           db_invite == MissionInvite(r, t, u)
           notification == Notification(t, Message("invited", u, m, r), InvitesLink)
       IN  /\ ~IntegrityError(invites, db_invite, MissionInviteUnique)
           /\ invites' = db_add(invites, db_invite)
           /\ notifications' = db_add(notifications, notification)
           /\ req' = [req EXCEPT ![w] = Done("create_invite", "OK")]
    /\ UNCHANGED <<talent, users, missions, roles, pitches>>

\* ---- respond_to_invite ----
\* One query loads the invite joined with its role and mission.  A missing
\* invite and a caller who is not the invited user get the same 404.
respond_to_invite_check(u, i, s) ==
    IF i \notin InviteIds \/ invites[i].invited_user_id # u THEN "NotFound"
    ELSE IF invites[i].status # "Pending" THEN "BadRequest"
    ELSE IF s \notin {"Accepted", "Declined"} THEN "BadRequest"
    ELSE "OK"

respond_to_invite(w, u, i, s) ==
    /\ Free(w)
    /\ IF respond_to_invite_check(u, i, s) # "OK"
       THEN req' = [req EXCEPT ![w] = Done("respond_to_invite", respond_to_invite_check(u, i, s))]
       ELSE /\ Room
            /\ req' = [req EXCEPT ![w] = [Request("respond_to_invite", u, i, s, NULL)
                          EXCEPT !.pc = "commit",
                                 !.seen_status = invites[i].status,
                                 !.seen_assignee = roles[invites[i].mission_role_id].assignee_user_id]]
    /\ UNCHANGED store

\* The user notified of an acceptance or a decline: the inviting user.
invited_user_id(i) == invites[i].invited_user_id
inviting_user_id(i) == invites[i].inviting_user_id

\* The handler decides on the assignee it loaded with the invite.
RoleNeverFilled(q) == FALSE
RoleNotHeldByCaller(q) == q.seen_assignee # q.user
RoleAlwaysFilled(q) == TRUE
RoleAlreadyFilled(q) == q.seen_assignee # NULL

respond_to_invite_commit_unassigned(w) ==
    /\ req[w].op = "respond_to_invite" /\ req[w].pc = "commit"
    /\ LET i == req[w].id
           u == req[w].user
           r == invites[i].mission_role_id
           m == roles[r].mission_id
           lead == inviting_user_id(i)
       IN  IF req[w].arg = "Accepted"
           THEN IF RoleAlreadyFilled(req[w])
                THEN /\ invites' = [invites EXCEPT ![i].status = "Declined"]
                     /\ notifications' = db_add(notifications,
                            Notification(u, Message("role_filled", NULL, m, NULL), NoLink))
                     /\ req' = [req EXCEPT ![w] = Done("respond_to_invite", "Conflict")]
                     /\ UNCHANGED roles
                ELSE /\ UNCHANGED roles
                     /\ invites' = [invites EXCEPT ![i].status = "Accepted"]
                     /\ notifications' = db_add(notifications,
                            Notification(lead, Message("invite_accepted", u, m, NULL), MissionLink(m)))
                     /\ req' = [req EXCEPT ![w] = Done("respond_to_invite", "OK")]
           ELSE /\ invites' = [invites EXCEPT ![i].status = "Declined"]
                /\ notifications' = db_add(notifications,
                       Notification(lead, Message("invite_declined", u, m, NULL), NoLink))
                /\ req' = [req EXCEPT ![w] = Done("respond_to_invite", "OK")]
                /\ UNCHANGED roles
    /\ UNCHANGED <<talent, users, missions, pitches>>

respond_to_invite_commit(w) ==
    /\ req[w].op = "respond_to_invite" /\ req[w].pc = "commit"
    /\ LET i == req[w].id
           u == req[w].user
           r == invites[i].mission_role_id
           m == roles[r].mission_id
           lead == inviting_user_id(i)
       IN  IF req[w].arg = "Accepted"
           THEN IF RoleAlreadyFilled(req[w])
                THEN /\ invites' = [invites EXCEPT ![i].status = "Declined"]
                     /\ notifications' = db_add(notifications,
                            Notification(u, Message("role_filled", NULL, m, NULL), NoLink))
                     /\ req' = [req EXCEPT ![w] = Done("respond_to_invite", "Conflict")]
                     /\ UNCHANGED roles
                ELSE /\ roles' = [roles EXCEPT ![r].assignee_user_id = u]
                     /\ invites' = [invites EXCEPT ![i].status = "Accepted"]
                     /\ notifications' = db_add(notifications,
                            Notification(lead, Message("invite_accepted", u, m, NULL), MissionLink(m)))
                     /\ req' = [req EXCEPT ![w] = Done("respond_to_invite", "OK")]
           ELSE /\ invites' = [invites EXCEPT ![i].status = "Declined"]
                /\ notifications' = db_add(notifications,
                       Notification(lead, Message("invite_declined", u, m, NULL), NoLink))
                /\ req' = [req EXCEPT ![w] = Done("respond_to_invite", "OK")]
                /\ UNCHANGED roles
    /\ UNCHANGED <<talent, users, missions, pitches>>

\* ---- get_db: the sessions are closed and the responses delivered ----
Respond ==
    /\ \E w \in Workers : req[w].pc = "done"
    /\ req' = [w \in Workers |-> IF req[w].pc = "done" THEN Idle ELSE req[w]]
    /\ UNCHANGED store

\* ---- the handlers by area, served by the workers W ----
Targets == Candidates \cup {Len(users) + 1}

PitchRequests(W) ==
    \/ \E w \in W, u \in UserIds, m \in 1..(Len(missions) + 1) : pitch_for_mission(w, u, m)
    \/ \E w \in W, u \in UserIds, p \in 1..(Len(pitches) + 1), s \in PitchStatusEnum :
          update_pitch_status(w, u, p, s)
    \/ \E w \in W : update_pitch_status_commit(w)

RoleRequests(W) ==
    \/ \E w \in W, u \in UserIds, r \in 1..(Len(roles) + 1), t \in Targets :
          draft_user_for_role(w, u, r, t)
    \/ \E w \in W : draft_user_for_role_commit(w)
    \/ \E w \in W, u \in UserIds, r \in 1..(Len(roles) + 1), t \in Targets :
          create_invite(w, u, r, t)
    \/ \E w \in W : create_invite_check(w)
    \/ \E w \in W : create_invite_commit(w)
    \/ \E w \in W, u \in UserIds, i \in 1..(Len(invites) + 1), s \in InviteStatusEnum :
          respond_to_invite(w, u, i, s)
    \/ \E w \in W : respond_to_invite_commit(w)

\* The role specifications a request can carry: skill 1 exists, the skill
\* after the last one of the catalogue does not.
RoleData == {MissionRoleCreate(1, "Beginner"), MissionRoleCreate(1, "Expert"),
             MissionRoleCreate(Len(skills) + 1, "Expert")}
RoleSpecs == UNION {[1..n -> RoleData] : n \in 0..MaxRoleSpecs}

\* The one specification of the requests that create the missions whose
\* status is then changed.
OneRole == {<< MissionRoleCreate(1, "Expert") >>}

MissionRequests(W, S) ==
    \/ \E w \in W, u \in UserIds, role_specs \in S : create_mission(w, u, role_specs)
    \/ \E w \in W : create_mission_roles(w)

StatusRequests(W) ==
    \/ \E w \in W, u \in UserIds, m \in 1..(Len(missions) + 1), s \in MissionStatusEnum :
          update_mission_status(w, u, m, s)
    \/ \E w \in W : update_mission_status_commit(w)

\* The emails that registrations name: one is taken, three are free.
Emails == {"e1", "e4", "e5", "e6"}

\* The passwords that requests carry.
Passwords == {"p1", "p2"}

AccountRequests(W) ==
    \/ \E w \in W, email \in Emails, password \in Passwords : register_user(w, email, password)
    \/ \E w \in W : register_user_commit(w)

\* The emails that logins name: of a user with a hash, of the user without
\* one, one that a registration may add, and one that no user ever has.
LoginEmails == {"e1", "e3", "e4", "e7"}

LoginRequests(W) ==
    \E w \in W, email \in LoginEmails, password \in Passwords :
        login_for_access_token(w, email, password)

NotificationRequests(W) ==
    \E w \in W, u \in UserIds, n \in 1..(Len(notifications) + 1) :
        mark_notification_as_read(w, u, n)

\* The names of the skills that are created and the strings that are
\* searched for.
SkillNames == {<< "G", "o" >>, << "C" >>}
SearchChars == {"g", "O", "_", "%"}
SearchStrings == UNION {[1..n -> SearchChars] : n \in 0..MaxSearchLen}

TalentRequests(W) ==
    \/ \E w \in W, u \in UserIds, name \in SkillNames : create_skill(w, u, name)
    \/ \E w \in W, u \in Candidates, k \in 1..(Len(skills) + 1), p \in SkillProficiencyEnum :
          add_skill_to_current_user(w, u, k, p)
    \/ \E w \in W : add_skill_to_current_user_commit(w)
    \/ \E w \in W, u \in UserIds, skill_name \in SearchStrings, p \in SkillProficiencyEnum :
          search_users_by_skill(w, u, skill_name, p)

GrantRequests(W) ==
    \/ \E w \in W, u \in Candidates, k \in 1..(Len(skills) + 1), p \in SkillProficiencyEnum :
          add_skill_to_current_user(w, u, k, p)
    \/ \E w \in W : add_skill_to_current_user_commit(w)
    \/ \E w \in W, u \in Candidates, k \in 1..(Len(skills) + 1) :
          remove_skill_from_current_user(w, u, k)
    \/ \E w \in W : remove_skill_from_current_user_commit(w)

\* The workflow on one mission, requests served one at a time.
Next == PitchRequests(Sequential) \/ RoleRequests(Sequential) \/ Respond
Spec == Init /\ [][Next]_vars

\* The role-filling requests on one mission, two served concurrently.
RaceNext == RoleRequests(Workers) \/ Respond
RaceSpec == Init /\ [][RaceNext]_vars

\* Mission creation, two requests served concurrently.
MissionNext == MissionRequests(Workers, RoleSpecs) \/ Respond
MissionSpec == MissionInit /\ [][MissionNext]_vars

\* Missions are created and their status is changed, two requests served
\* concurrently.
StatusNext == MissionRequests(Workers, OneRole) \/ StatusRequests(Workers) \/ Respond
StatusSpec == MissionInit /\ [][StatusNext]_vars

\* The mission handlers, one request at a time.
StatusSeqNext == MissionRequests(Sequential, OneRole) \/ StatusRequests(Sequential) \/ Respond
StatusSeqSpec == MissionInit /\ [][StatusSeqNext]_vars

\* Registration, two requests served concurrently.
AccountNext == AccountRequests(Workers) \/ Respond
AccountSpec == MissionInit /\ [][AccountNext]_vars

\* Registrations and logins.
LoginNext == AccountRequests(Workers) \/ LoginRequests(Workers) \/ Respond
LoginSpec == MissionInit /\ [][LoginNext]_vars

\* Pitches and their decisions notify the lead and the pitchers, who mark
\* their notifications as read; requests served one at a time.
ReadNext == PitchRequests(Sequential) \/ NotificationRequests(Sequential) \/ Respond
ReadSpec == Init /\ [][ReadNext]_vars

\* Skills are created and granted and users are searched by skill; requests
\* served one at a time.
TalentNext == TalentRequests(Sequential) \/ Respond
TalentSpec == MissionInit /\ [][TalentNext]_vars

\* Skills are granted and revoked, two requests served concurrently.
GrantNext == GrantRequests(Workers) \/ Respond
GrantSpec == MissionInit /\ [][GrantNext]_vars

\* ======================= properties =======================

\* Worker w's request of handler op commits in this step.
Commits(w, op) == req[w].op = op /\ req[w].pc = "commit" /\ req'[w].pc = "done"
\* Worker w takes a request of handler op in this step and rejects it.
Rejects(w, op) == req[w].pc = "idle" /\ req'[w].op = op /\ req'[w].pc = "done"
\* Worker w's request finishes in this step.
Finishes(w) == req[w].pc # "done" /\ req'[w].pc = "done"

RoleOf(i) == invites[i].mission_role_id
LeadOf(r) == missions[roles[r].mission_id].lead_user_id
AcceptedOn(r) == {j \in InviteIds : RoleOf(j) = r /\ invites[j].status = "Accepted"}
DraftedTo(r) == {k \in DOMAIN notifications : /\ notifications[k].message.kind = "drafted"
                                              /\ notifications[k].message.role = r}
Kinds == {notifications[k].message.kind : k \in DOMAIN notifications}

\* C1: of two acceptances of different Pending invites on the same unfilled
\* role exactly one succeeds: the acceptance that commits when another invite
\* of the role is already Accepted reports Conflict, its invite ends Declined
\* and the role keeps the winner as its assignee.
C1_SecondAcceptLoses ==
    [][\A w \in Workers :
         (/\ Commits(w, "respond_to_invite")
          /\ req[w].arg = "Accepted"
          /\ AcceptedOn(RoleOf(req[w].id)) \ {req[w].id} # {})
         => /\ req'[w].res = "Conflict"
            /\ invites'[req[w].id].status = "Declined"
            /\ roles' = roles
            /\ Cardinality({j \in InviteIds : /\ RoleOf(j) = RoleOf(req[w].id)
                                              /\ invites'[j].status = "Accepted"}) = 1]_vars

\* C2: of a draft and an acceptance racing for the same unfilled role exactly
\* one reports success and its user is the assignee: the acceptance that
\* commits after the draft reports Conflict, the draft that commits after the
\* acceptance does not report success, and neither overwrites the winner.
C2_DraftAndAcceptExclusive ==
    [][\A w \in Workers :
         /\ (/\ Commits(w, "respond_to_invite")
             /\ req[w].arg = "Accepted"
             /\ DraftedTo(RoleOf(req[w].id)) # {})
            => (req'[w].res = "Conflict" /\ roles' = roles)
         /\ (/\ Commits(w, "draft_user_for_role")
             /\ AcceptedOn(req[w].id) # {})
            => (req'[w].res \in Errors /\ roles' = roles)]_vars

\* C3: an acceptance whose role was filled (by a draft) before the invited
\* user responded reports Conflict, leaves the invite Declined, adds exactly
\* one notification, to the responding candidate, and leaves the roles as
\* they are.
C3_AcceptOfFilledRole ==
    [][\A w \in Workers :
         (/\ Commits(w, "respond_to_invite")
          /\ req[w].arg = "Accepted"
          /\ req[w].seen_assignee # NULL)
         => /\ req'[w].res = "Conflict"
            /\ invites' = [invites EXCEPT ![req[w].id].status = "Declined"]
            /\ Len(notifications') = Len(notifications) + 1
            /\ SubSeq(notifications', 1, Len(notifications)) = notifications
            /\ notifications'[Len(notifications')].user_id = req[w].user
            /\ notifications'[Len(notifications')].message.kind = "role_filled"
            /\ req[w].user = invites[req[w].id].invited_user_id
            /\ roles' = roles]_vars

\* A candidate was told the role was filled, the role was filled by a draft
\* and still holds the drafted user, and the candidate's invite is Declined.
C3_Witness ==
    \E k \in DOMAIN notifications, d \in DOMAIN notifications, i \in InviteIds :
        /\ notifications[k].message.kind = "role_filled"
        /\ notifications[d].message.kind = "drafted"
        /\ d < k
        /\ RoleOf(i) = notifications[d].message.role
        /\ invites[i].invited_user_id = notifications[k].user_id
        /\ invites[i].status = "Declined"
        /\ roles[RoleOf(i)].assignee_user_id = notifications[d].user_id
        /\ \E w \in Workers : req[w] = Done("respond_to_invite", "Conflict")

\* C4: there is at most one pitch per (mission, user): a second pitch of the
\* same user for the same mission is refused and adds no row.
C4_OnePitchPerMissionAndUser ==
    \A p, q \in PitchIds :
        (pitches[p].mission_id = pitches[q].mission_id /\ pitches[p].user_id = pitches[q].user_id)
        => p = q

\* C5: an invite's status changes only from Pending, to Accepted or Declined;
\* a response to an invite that is no longer Pending is a BadRequest, and a
\* BadRequest leaves invites, roles and notifications as they are.
C5_InviteStatusTerminal ==
    [][/\ \A i \in InviteIds :
            invites'[i].status # invites[i].status
            => (invites[i].status = "Pending" /\ invites'[i].status \in {"Accepted", "Declined"})
       /\ \A i \in InviteIds, s \in InviteStatusEnum :
            invites[i].status # "Pending"
            => respond_to_invite_check(invites[i].invited_user_id, i, s) = "BadRequest"
       /\ \A w \in Workers :
            (Rejects(w, "respond_to_invite") /\ req'[w].res = "BadRequest")
            => (invites' = invites /\ roles' = roles /\ notifications' = notifications)]_vars

\* C6: a pitch's status changes only from Submitted, to Accepted or Rejected.
C6_PitchStatusTerminal ==
    [][\A p \in PitchIds :
         pitches'[p].status # pitches[p].status
         => (pitches[p].status = "Submitted" /\ pitches'[p].status \in {"Accepted", "Rejected"})]_vars

\* C7: create_invite by the mission's lead for a role that has an assignee is
\* a BadRequest, whoever is to be invited, and a create_invite that ends in
\* BadRequest adds no invite and no notification.
C7_InviteToFilledRole ==
    [][/\ \A r \in RoleIds :
            (roles[r].assignee_user_id # NULL /\ IsManager(LeadOf(r)))
            => create_invite_role_check(LeadOf(r), r) = "BadRequest"
       /\ \A w \in Workers :
            (Finishes(w) /\ req'[w].op = "create_invite" /\ req'[w].res = "BadRequest")
            => (invites' = invites /\ notifications' = notifications /\ roles' = roles)]_vars

\* The lead's invite to a filled role was just refused.
C7_Witness ==
    \E w \in Workers, r \in RoleIds :
        /\ req[w] = Done("create_invite", "BadRequest")
        /\ roles[r].assignee_user_id # NULL
        /\ invites = << >>

\* C8: create_mission by a Member is Forbidden and adds no mission and no
\* role; by a Manager or an Admin it adds a mission led by the caller and
\* then, its role specifications naming existing skills, reports success.
C8_OnlyManagersCreateMissions ==
    [][\A w \in Workers :
         /\ (req[w].pc = "idle" /\ req'[w].op = "create_mission")
            => IF users[req'[w].user].role = "Member"
               THEN /\ req'[w].pc = "done" /\ req'[w].res = "Forbidden"
                    /\ missions' = missions /\ roles' = roles
               ELSE /\ req'[w].pc = "roles"
                    /\ missions' = Append(missions, Mission(req'[w].user))
                    /\ req'[w].id = Len(missions')
                    /\ roles' = roles
         /\ (/\ req[w].op = "create_mission" /\ req[w].pc = "roles" /\ req'[w] # req[w]
             /\ ~SkillMissing(req[w].specs))
            => /\ req'[w].pc = "done" /\ req'[w].res = "OK"
               /\ missions' = missions
               /\ missions[req[w].id].lead_user_id = req[w].user
               /\ Len(roles') = Len(roles) + Len(req[w].specs)]_vars

\* A Member was refused while a Manager and an Admin each lead a mission.
C8_Witness ==
    /\ \E w \in Workers : req[w].op = "create_mission" /\ req[w].res = "Forbidden"
                          /\ users[req[w].user].role = "Member"
    /\ \E w \in Workers : req[w].op = "create_mission" /\ req[w].res = "OK"
    /\ \E m \in MissionIds : users[missions[m].lead_user_id].role = "Manager"
    /\ \E m \in MissionIds : users[missions[m].lead_user_id].role = "Admin"

\* C9: a step adds at most one notification and never changes an older one;
\* a step that changes a pitch, an invite or a role's assignee adds exactly
\* one, in that same step; and a notification is added only by the commit of
\* a pitch, a pitch decision, a draft, an invite or an invite response, in the
\* step that makes the change it reports.
C9_OneNotificationPerTransition ==
    [][LET added == Len(notifications') - Len(notifications)
           last == notifications'[Len(notifications')]
       IN  /\ added \in {0, 1}
           /\ SubSeq(notifications', 1, Len(notifications)) = notifications
           /\ (pitches' # pitches \/ invites' # invites \/ roles' # roles) => added = 1
           /\ \A w \in Workers :
                (/\ Finishes(w) /\ req'[w].res = "OK"
                 /\ req'[w].op \in {"pitch_for_mission", "update_pitch_status",
                                    "draft_user_for_role", "create_invite", "respond_to_invite"})
                => added = 1
           /\ added = 1
              => \E w \in Workers :
                   /\ Finishes(w)
                   /\ \/ /\ req'[w].op = "pitch_for_mission" /\ req'[w].res = "OK"
                         /\ last.message.kind = "pitched"
                         /\ pitches' = Append(pitches, MissionPitch(last.message.title, last.message.name))
                         /\ last.user_id = missions[last.message.title].lead_user_id
                      \/ /\ Commits(w, "update_pitch_status") /\ req'[w].res = "OK"
                         /\ last.message.kind \in {"pitch_accepted", "pitch_rejected"}
                         /\ pitches' = [pitches EXCEPT ![req[w].id].status = req[w].arg]
                         /\ last.user_id = pitches[req[w].id].user_id
                      \/ /\ Commits(w, "draft_user_for_role") /\ req'[w].res = "OK"
                         /\ last.message.kind = "drafted"
                         /\ roles' = [roles EXCEPT ![req[w].id].assignee_user_id = req[w].target]
                         /\ last.user_id = req[w].target
                      \/ /\ Commits(w, "create_invite") /\ req'[w].res = "OK"
                         /\ last.message.kind = "invited"
                         /\ invites' = Append(invites, MissionInvite(req[w].id, req[w].target, req[w].user))
                         /\ last.user_id = req[w].target
                      \/ /\ Commits(w, "respond_to_invite") /\ req'[w].res = "OK"
                         /\ last.message.kind \in {"invite_accepted", "invite_declined"}
                         /\ invites' = [invites EXCEPT ![req[w].id].status = req[w].arg]
                         /\ last.user_id = invites[req[w].id].inviting_user_id
                      \/ /\ Commits(w, "respond_to_invite") /\ req'[w].res = "Conflict"
                         /\ last.message.kind = "role_filled"
                         /\ invites' = [invites EXCEPT ![req[w].id].status = "Declined"]
                         /\ last.user_id = req[w].user]_vars

\* A pitch, an invite, a draft and an invite response were each notified.
C9_Witness ==
    /\ Len(notifications) = 4
    /\ {"pitched", "invited", "drafted"} \subseteq Kinds
    /\ Kinds \cap {"invite_declined", "role_filled"} # {}

\* C10: the acceptance of a Pending invite whose role the handler found
\* unfilled succeeds, makes the invited user the role's assignee, marks the
\* invite Accepted and adds exactly one notification, to the inviting lead;
\* no other role, invite or pitch changes.
C10_AcceptOfFreeRole ==
    [][\A w \in Workers :
         (/\ Commits(w, "respond_to_invite")
          /\ req[w].arg = "Accepted"
          /\ req[w].seen_status = "Pending"
          /\ req[w].seen_assignee = NULL)
         => LET i == req[w].id IN
            /\ req'[w].res = "OK"
            /\ roles' = [roles EXCEPT ![RoleOf(i)].assignee_user_id = invites[i].invited_user_id]
            /\ invites' = [invites EXCEPT ![i].status = "Accepted"]
            /\ notifications' = Append(notifications,
                   Notification(LeadOf(RoleOf(i)),
                                Message("invite_accepted", invites[i].invited_user_id,
                                        roles[RoleOf(i)].mission_id, NULL),
                                MissionLink(roles[RoleOf(i)].mission_id)))
            /\ invites[i].inviting_user_id = LeadOf(RoleOf(i))
            /\ pitches' = pitches /\ missions' = missions /\ users' = users]_vars

\* An invited user's acceptance just succeeded: the invite is Accepted, the
\* user holds the role, the other role is free and the lead was notified.
C10_Witness ==
    \E w \in Workers, i \in InviteIds, k \in DOMAIN notifications, r \in RoleIds :
        /\ req[w] = Done("respond_to_invite", "OK")
        /\ invites[i].status = "Accepted"
        /\ roles[RoleOf(i)].assignee_user_id = invites[i].invited_user_id
        /\ r # RoleOf(i) /\ roles[r].assignee_user_id = NULL
        /\ notifications[k].message.kind = "invite_accepted"
        /\ notifications[k].user_id = invites[i].inviting_user_id
        /\ k = Len(notifications)

\* C11: update_mission_status on a mission that does not exist is NotFound
\* and by a user who is not the mission's lead is Forbidden; a refused
\* request changes nothing; a mission's lead never changes; a mission's
\* status changes only in the commit of an update_mission_status of the
\* mission's lead, and a new mission is added only by create_mission.
C11_OnlyLeadChangesStatus ==
    [][/\ \A u \in UserIds :
            update_mission_status_check(u, Len(missions) + 1) = "NotFound"
       /\ \A u \in UserIds, m \in MissionIds :
            update_mission_status_check(u, m) =
                IF u = missions[m].lead_user_id THEN "OK" ELSE "Forbidden"
       /\ \A w \in Workers :
            (Rejects(w, "update_mission_status") /\ req'[w].res \in Errors) => store' = store
       /\ \A w \in Workers :
            Rejects(w, "update_mission_status") =>
                req'[w].res \in {"NotFound", "Forbidden"}
       /\ Len(missions') >= Len(missions)
       /\ \A m \in MissionIds :
            /\ missions'[m].lead_user_id = missions[m].lead_user_id
            /\ missions'[m].status # missions[m].status
               => \E w \in Workers :
                    /\ Commits(w, "update_mission_status")
                    /\ req[w].id = m
                    /\ req[w].user = missions[m].lead_user_id
                    /\ missions'[m].status = req[w].arg
       /\ Len(missions') > Len(missions)
          => \E w \in Workers : req[w].pc = "idle" /\ req'[w].op = "create_mission"]_vars

\* A user who does not lead the mission was just refused while the mission's
\* lead has moved it out of Proposed.
C11_Witness ==
    \E w \in Workers, m \in MissionIds :
        /\ req[w] = Done("update_mission_status", "Forbidden")
        /\ missions[m].status = "Completed"
        /\ Len(missions) = 1

\* C12: a role's assignee changes only in the commit of a draft by the lead
\* of the role's mission, to the drafted user, or in the commit of an
\* acceptance by the invited user of an invite on that role that the lead
\* created and the handler found Pending; every assignee was drafted or is
\* the invited user of an invite of the lead on that role; a draft or a
\* create_invite on an existing role by a user who is not the lead is
\* Forbidden, and a Forbidden request changes nothing.
C12_AssigneeSetByLeadOrInvitee ==
    /\ [][/\ \A r \in RoleIds :
               roles'[r].assignee_user_id # roles[r].assignee_user_id
               => \E w \in Workers :
                    \/ /\ Commits(w, "draft_user_for_role")
                       /\ req[w].id = r
                       /\ req[w].user = LeadOf(r)
                       /\ roles'[r].assignee_user_id = req[w].target
                    \/ /\ Commits(w, "respond_to_invite")
                       /\ req[w].arg = "Accepted"
                       /\ req[w].seen_status = "Pending"
                       /\ RoleOf(req[w].id) = r
                       /\ invites[req[w].id].invited_user_id = req[w].user
                       /\ invites[req[w].id].inviting_user_id = LeadOf(r)
                       /\ roles'[r].assignee_user_id = req[w].user
          /\ \A w \in Workers :
               (/\ Finishes(w) /\ req'[w].res = "Forbidden"
                /\ req'[w].op \in {"draft_user_for_role", "create_invite"})
               => store' = store]_vars
    /\ [](/\ \A r \in RoleIds :
               roles[r].assignee_user_id # NULL
               => \/ \E k \in DraftedTo(r) : notifications[k].user_id = roles[r].assignee_user_id
                  \/ \E i \in InviteIds : /\ RoleOf(i) = r
                                           /\ invites[i].invited_user_id = roles[r].assignee_user_id
                                           /\ invites[i].inviting_user_id = LeadOf(r)
          /\ \A u \in UserIds, r \in RoleIds, t \in Targets :
               u # LeadOf(r) => /\ draft_user_for_role_check(u, r, t) = "Forbidden"
                                /\ create_invite_role_check(u, r) = "Forbidden")

\* One role holds the user the lead drafted, the other the invited user who
\* accepted, and a draft by a user who is not the lead was just refused.
C12_Witness ==
    \E w \in Workers, r \in RoleIds, i \in InviteIds :
        /\ req[w] = Done("draft_user_for_role", "Forbidden")
        /\ \E k \in DraftedTo(r) : notifications[k].user_id = roles[r].assignee_user_id
        /\ RoleOf(i) # r
        /\ invites[i].status = "Accepted"
        /\ roles[RoleOf(i)].assignee_user_id = invites[i].invited_user_id

\* C13: update_pitch_status by a user who does not lead the mission of an
\* existing pitch is Forbidden, respond_to_invite by a user who is not the
\* invited user of an existing invite is Forbidden, and either is NotFound
\* only for a pitch or an invite that does not exist.
C13_ForbiddenForNonEntitled ==
    /\ \A u \in UserIds, p \in PitchIds :
          /\ u # missions[pitches[p].mission_id].lead_user_id
             => update_pitch_status_check(u, p) = "Forbidden"
          /\ update_pitch_status_check(u, p) # "NotFound"
    /\ \A u \in UserIds, i \in InviteIds, s \in InviteStatusEnum :
          /\ u # invites[i].invited_user_id
             => respond_to_invite_check(u, i, s) = "Forbidden"
          /\ respond_to_invite_check(u, i, s) # "NotFound"
    /\ \A u \in UserIds :
          /\ update_pitch_status_check(u, Len(pitches) + 1) = "NotFound"
          /\ \A s \in InviteStatusEnum :
                respond_to_invite_check(u, Len(invites) + 1, s) = "NotFound"

\* C14: a registration that creates no user, its email belonging to a user
\* already, ends as a Conflict; a registration that succeeds adds one user;
\* no two users share an email.
C14_RegisterExistingEmail ==
    /\ [][\A w \in Workers :
             (Finishes(w) /\ req'[w].op = "register_user")
             => IF req'[w].res = "OK"
                THEN Len(users') = Len(users) + 1
                ELSE req'[w].res = "Conflict" /\ users' = users]_vars
    /\ [](\A u, v \in UserIds : users[u].email = users[v].email => u = v)

\* C15: mark_notification_as_read by the owner of the notification succeeds
\* and leaves the notification read and everything else as it was; when the
\* notification was read already the whole store stays as it was; on a
\* notification of another user or on a missing id it is NotFound and the
\* store, the read flags included, stays as it was.
C15_MarkReadIdempotent ==
    [][\A w \in Workers :
         (Finishes(w) /\ req'[w].op = "mark_notification_as_read")
         => LET u == req'[w].user
                n == req'[w].id
            IN  IF n \in DOMAIN notifications /\ notifications[n].user_id = u
                THEN /\ req'[w].res = "OK"
                     /\ notifications' = [notifications EXCEPT ![n].is_read = TRUE]
                     /\ notifications[n].is_read => store' = store
                     /\ <<users, talent, missions, roles, pitches, invites>>'
                          = <<users, talent, missions, roles, pitches, invites>>
                ELSE /\ req'[w].res = "NotFound"
                     /\ store' = store]_vars

\* The owner just marked a notification as read that was read already, while
\* a notification of another user is still unread.
C15_Witness ==
    \E w \in Workers, k \in DOMAIN notifications :
        /\ req[w].op = "mark_notification_as_read" /\ req[w].res = "OK"
        /\ req[w].seen_status = "read"
        /\ notifications[req[w].id].is_read
        /\ notifications[k].user_id # req[w].user
        /\ ~notifications[k].is_read

\* The roles of mission m, in the order of the table.
RolesOf(table, m) == SelectSeq(table, LAMBDA row : row.mission_id = m)

\* C16: a create_mission whose N role specifications name existing skills
\* succeeds, and when it does the mission, which had no role, has exactly N
\* roles, the k-th with no assignee and with the required skill and the
\* required proficiency of the k-th specification; the roles of the other
\* missions stay as they were.
C16_MissionGetsItsRoles ==
    [][\A w \in Workers :
         (req[w].op = "create_mission" /\ req[w].pc = "roles" /\ Finishes(w))
         => LET m == req[w].id
                role_specs == req[w].specs
                mine == RolesOf(roles', m)
            IN  /\ ~SkillMissing(role_specs) => req'[w].res = "OK"
                /\ req'[w].res = "OK"
                   => /\ m \in MissionIds
                      /\ RolesOf(roles, m) = << >>
                      /\ Len(mine) = Len(role_specs)
                      /\ \A k \in 1..Len(role_specs) :
                            /\ mine[k].assignee_user_id = NULL
                            /\ mine[k].skill_id_required = role_specs[k].skill_id_required
                            /\ mine[k].proficiency_required = role_specs[k].proficiency_required
                      /\ \A o \in MissionIds \ {m} : RolesOf(roles', o) = RolesOf(roles, o)]_vars

\* A create_mission just succeeded and a mission has two unassigned roles,
\* the first requiring Beginner and the second Expert.
C16_Witness ==
    \E w \in Workers, m \in MissionIds :
        /\ req[w].op = "create_mission" /\ req[w].res = "OK"
        /\ Len(RolesOf(roles, m)) = 2
        /\ RolesOf(roles, m)[1].proficiency_required = "Beginner"
        /\ RolesOf(roles, m)[2].proficiency_required = "Expert"
        /\ \A k \in 1..2 : RolesOf(roles, m)[k].assignee_user_id = NULL

\* sub occurs in str as a run of consecutive characters.
Contains(str, sub) ==
    \E k \in 0..(Len(str) - Len(sub)) : SubSeq(str, k + 1, k + Len(sub)) = sub
\* The order Beginner < Intermediate < Advanced < Expert.
Rank(p) == CASE p = "Beginner" -> 1 [] p = "Intermediate" -> 2
             [] p = "Advanced" -> 3 [] p = "Expert" -> 4

\* C17: search_users_by_skill returns exactly the users who hold a grant
\* whose skill's name contains the search string, letter case aside, and
\* whose proficiency is at least the threshold.
C17_SearchBySkill ==
    [][\A w \in Workers :
         (Finishes(w) /\ req'[w].op = "search_users_by_skill")
         => req'[w].found =
              {u \in UserIds :
                 \E g \in user_skills :
                     /\ g.user_id = u
                     /\ Contains(LowerStr(skills[g.skill_id].name), LowerStr(req'[w].name))
                     /\ Rank(g.proficiency) >= Rank(req'[w].arg)}]_vars

\* C18: there is at most one Pending invite per (role, invited user), also
\* when two create_invite requests for the same pair are interleaved.
C18_OnePendingInvitePerRoleAndUser ==
    \A i, j \in InviteIds :
        (/\ invites[i].mission_role_id = invites[j].mission_role_id
         /\ invites[i].invited_user_id = invites[j].invited_user_id
         /\ invites[i].status = "Pending" /\ invites[j].status = "Pending")
        => i = j

\* C19: requests served one at a time, a create_invite for a (role, user)
\* that has a Pending invite is a Conflict and changes nothing; the lead's
\* create_invite for an unfilled role and an existing user without a Pending
\* invite on the role, earlier invites of the pair being Accepted or
\* Declined, goes on to insert a Pending invite and succeeds.
C19_InviteAgainOnlyWhenNotPending ==
    [][\A w \in Sequential :
         /\ \A r \in RoleIds :
               (roles[r].assignee_user_id = NULL /\ IsManager(LeadOf(r)))
               => create_invite_role_check(LeadOf(r), r) = "OK"
         /\ (req[w].op = "create_invite" /\ req[w].pc = "check" /\ req'[w] # req[w])
            => LET r == req[w].id
                   t == req[w].target
                   pending == {i \in InviteIds : /\ RoleOf(i) = r
                                                 /\ invites[i].invited_user_id = t
                                                 /\ invites[i].status = "Pending"}
               IN  /\ store' = store
                   /\ pending # {} => req'[w] = Done("create_invite", "Conflict")
                   /\ (pending = {} /\ t \in UserIds) => req'[w].pc = "commit"
         /\ Commits(w, "create_invite")
            => /\ req'[w].res = "OK"
               /\ invites' = Append(invites, MissionInvite(req[w].id, req[w].target, req[w].user))
               /\ Len(notifications') = Len(notifications) + 1]_vars

\* The user declined the first invite to the role, which is still unfilled,
\* and was just invited to it again.
C19_Witness ==
    /\ req["w1"] = Done("create_invite", "OK")
    /\ Len(invites) = 2
    /\ invites[1].mission_role_id = invites[2].mission_role_id
    /\ invites[1].invited_user_id = invites[2].invited_user_id
    /\ invites[1].status = "Declined"
    /\ invites[2].status = "Pending"
    /\ roles[invites[1].mission_role_id].assignee_user_id = NULL

\* C20: a Declined response that the handler found Pending and addressed by
\* the invited user succeeds, marks the invite Declined, adds exactly one
\* notification, to the inviting lead, and leaves every role as it is,
\* whether the role has been filled or not.
C20_DeclineNotifiesLead ==
    [][\A w \in Workers :
         (/\ Commits(w, "respond_to_invite")
          /\ req[w].arg = "Declined"
          /\ req[w].seen_status = "Pending")
         => LET i == req[w].id IN
            /\ req'[w].res = "OK"
            /\ req[w].user = invites[i].invited_user_id
            /\ invites' = [invites EXCEPT ![i].status = "Declined"]
            /\ notifications' = Append(notifications,
                   Notification(invites[i].inviting_user_id,
                                Message("invite_declined", invites[i].invited_user_id,
                                        roles[RoleOf(i)].mission_id, NULL),
                                NoLink))
            /\ invites[i].inviting_user_id = LeadOf(RoleOf(i))
            /\ roles' = roles]_vars

\* An invited user just declined an invite to a role that had been filled
\* by a draft in the meantime; the lead was notified and the role still
\* holds the drafted user.
C20_Witness ==
    \E w \in Workers, i \in InviteIds, d \in DOMAIN notifications :
        /\ req[w] = Done("respond_to_invite", "OK")
        /\ invites[i].status = "Declined"
        /\ notifications[Len(notifications)].message.kind = "invite_declined"
        /\ notifications[Len(notifications)].message.name = invites[i].invited_user_id
        /\ notifications[Len(notifications)].user_id = invites[i].inviting_user_id
        /\ notifications[d].message.kind = "drafted"
        /\ notifications[d].message.role = RoleOf(i)
        /\ roles[RoleOf(i)].assignee_user_id = notifications[d].user_id

\* C21: requests served one at a time, a draft by the mission's lead of an
\* existing user passes the handler's checks whether the role has an assignee
\* or not, and its commit succeeds, makes the drafted user the role's
\* assignee, adds exactly one notification, to the drafted user, and changes
\* no other role, no invite and no pitch.
C21_DraftAlwaysSucceeds ==
    /\ [](\A r \in RoleIds, t \in UserIds :
             draft_user_for_role_check(LeadOf(r), r, t) = "OK")
    /\ [][\A w \in Sequential :
             Commits(w, "draft_user_for_role")
             => LET r == req[w].id
                    t == req[w].target
                    m == roles[r].mission_id
                IN  /\ req'[w].res = "OK"
                    /\ req[w].user = LeadOf(r)
                    /\ roles' = [roles EXCEPT ![r].assignee_user_id = t]
                    /\ notifications' = Append(notifications,
                           Notification(t, Message("drafted", NULL, m, r), MissionLink(m)))
                    /\ invites' = invites /\ pitches' = pitches
                    /\ missions' = missions /\ users' = users]_vars

\* A draft just succeeded on a role that an invited user had accepted: the
\* role holds the drafted user instead, and the invite is still Accepted.
C21_Witness ==
    \E i \in InviteIds, d \in DOMAIN notifications :
        /\ req["w1"] = Done("draft_user_for_role", "OK")
        /\ d = Len(notifications)
        /\ notifications[d].message.kind = "drafted"
        /\ notifications[d].message.role = RoleOf(i)
        /\ invites[i].status = "Accepted"
        /\ invites[i].invited_user_id # notifications[d].user_id
        /\ roles[RoleOf(i)].assignee_user_id = notifications[d].user_id

\* C22: the commit of a pitch decision changes the status of that pitch and
\* nothing else of the pitches, adds exactly one notification, to the
\* pitcher, and leaves the roles, the invites, the missions and the users as
\* they are; no step of update_pitch_status changes a role.
C22_PitchDecisionLeavesRoles ==
    [][\A w \in Sequential :
         /\ (req[w].op = "update_pitch_status" \/ req'[w].op = "update_pitch_status")
            => roles' = roles
         /\ Commits(w, "update_pitch_status")
            => LET p == req[w].id
               IN  /\ req'[w].res = "OK"
                   /\ pitches' = [pitches EXCEPT ![p].status = req[w].arg]
                   /\ Len(notifications') = Len(notifications) + 1
                   /\ SubSeq(notifications', 1, Len(notifications)) = notifications
                   /\ notifications'[Len(notifications')].user_id = pitches[p].user_id
                   /\ invites' = invites /\ missions' = missions /\ users' = users]_vars

\* The lead just accepted the pitch of another user, who was notified; no
\* role has an assignee.
C22_Witness ==
    \E p \in PitchIds :
        /\ req["w1"] = Done("update_pitch_status", "OK")
        /\ pitches[p].status = "Accepted"
        /\ pitches[p].user_id # missions[pitches[p].mission_id].lead_user_id
        /\ notifications[Len(notifications)].message.kind = "pitch_accepted"
        /\ notifications[Len(notifications)].user_id = pitches[p].user_id
        /\ \A r \in RoleIds : roles[r].assignee_user_id = NULL

\* C23: a request that ends as NotFound, Forbidden, BadRequest or Conflict
\* leaves the whole store as it was, except the acceptance by the invited
\* user that found its role filled: that one marks its invite Declined, adds
\* one notification and changes nothing else.
C23_FailuresLeaveStore ==
    [][\A w \in Workers :
         (Finishes(w) /\ req'[w].res \in Errors)
         => \/ store' = store
            \/ /\ Commits(w, "respond_to_invite")
               /\ req'[w].res = "Conflict"
               /\ req[w].arg = "Accepted"
               /\ req[w].seen_assignee # NULL
               /\ invites' = [invites EXCEPT ![req[w].id].status = "Declined"]
               /\ Len(notifications') = Len(notifications) + 1
               /\ SubSeq(notifications', 1, Len(notifications)) = notifications
               /\ <<users, talent, missions, roles, pitches>>'
                    = <<users, talent, missions, roles, pitches>>]_vars

\* An acceptance was just refused as a Conflict: its invite is Declined, the
\* role holds another user and the candidate was told that it is filled.
C23_Witness ==
    \E i \in InviteIds :
        /\ req["w1"] = Done("respond_to_invite", "Conflict")
        /\ invites[i].status = "Declined"
        /\ roles[RoleOf(i)].assignee_user_id \notin {NULL, invites[i].invited_user_id}
        /\ notifications[Len(notifications)].message.kind = "role_filled"

\* C24: draft_user_for_role, create_invite and update_mission_status report
\* NotFound for a role or a mission that does not exist, whoever the caller
\* is, and Forbidden exactly when the role or mission exists and the caller
\* is not the mission's lead.
C24_ExistenceBeforeOwnership ==
    /\ \A u \in UserIds, t \in UserIds :
          draft_user_for_role_check(u, Len(roles) + 1, t) = "NotFound"
    /\ \A u \in UserIds :
          /\ create_invite_role_check(u, Len(roles) + 1) = "NotFound"
          /\ update_mission_status_check(u, Len(missions) + 1) = "NotFound"
    /\ \A u \in UserIds, r \in RoleIds, t \in UserIds :
          /\ draft_user_for_role_check(u, r, t) = "Forbidden" <=> u # LeadOf(r)
          /\ create_invite_role_check(u, r) = "Forbidden" <=> u # LeadOf(r)
    /\ \A u \in UserIds, m \in MissionIds :
          update_mission_status_check(u, m) = "Forbidden" <=> u # missions[m].lead_user_id

\* C25: no step removes a notification or changes the recipient, the message
\* or the link of one; the table only grows, by appending; and a read flag
\* that is true stays true.
C25_NotificationsAppendOnly ==
    [][/\ Len(notifications') >= Len(notifications)
       /\ \A k \in DOMAIN notifications :
            /\ notifications'[k].user_id = notifications[k].user_id
            /\ notifications'[k].message = notifications[k].message
            /\ notifications'[k].link = notifications[k].link
            /\ notifications[k].is_read => notifications'[k].is_read]_vars

\* A notification was read by its owner, and notifications for other users
\* were added after it and are unread.
C25_Witness ==
    \E k \in DOMAIN notifications :
        /\ notifications[k].is_read
        /\ k < Len(notifications)
        /\ \A j \in (k + 1)..Len(notifications) : ~notifications[j].is_read
        /\ notifications[Len(notifications)].user_id # notifications[k].user_id

\* C26: there is at most one grant per (user, skill); the commit of an
\* add_skill_to_current_user for a pair that has a grant adds no grant; and
\* one whose query found the pair's grant and that succeeds with another
\* proficiency leaves the pair with the one grant, at that proficiency.
C26_OneGrantPerUserAndSkill ==
    /\ [](\A g, h \in user_skills :
             (g.user_id = h.user_id /\ g.skill_id = h.skill_id) => g = h)
    /\ [][\A w \in Workers :
             Commits(w, "add_skill_to_current_user")
             => LET u == req[w].user
                    k == req[w].id
                    p == req[w].arg
                    after == {g \in user_skills' : g.user_id = u /\ g.skill_id = k}
                IN  /\ Grants(u, k) # {}
                       => Cardinality(user_skills') = Cardinality(user_skills)
                    /\ (/\ req[w].seen_status \notin {"", p}
                        /\ req'[w].res = "OK")
                       => after = {UserSkill(u, k, p)}
                    /\ user_skills' \ after = user_skills \ Grants(u, k)]_vars

\* Two interleaved requests both found the grant of the pair and both
\* succeeded; the pair has the one grant.
C26_Witness ==
    /\ \A w \in Workers : /\ req[w].op = "add_skill_to_current_user"
                           /\ req[w].res = "OK"
                           /\ req[w].seen_status # ""
    /\ Cardinality(user_skills) = 1

C29_MissionCreationAtomic ==
    \A w \in Workers :
        (/\ req[w].op = "create_mission"
         /\ req[w].pc \in {"roles", "done"}
         /\ req[w].id \in DOMAIN missions)
        => Len(RolesOf(roles, req[w].id)) = Len(req[w].specs)

\* C30: whatever a mission's status, an update_mission_status of its lead
\* to any status is accepted; its commit succeeds, leaves the mission in the
\* requested status, and changes no other mission, no other table and no
\* notification.
C30_AnyStatusFromAnyStatus ==
    [][\A w \in Workers :
         /\ \A m \in MissionIds, s \in MissionStatusEnum :
              update_mission_status(w, missions[m].lead_user_id, m, s)
              => /\ req'[w].pc = "commit"
                 /\ req'[w].arg = s
                 /\ req'[w].id = m
         /\ Commits(w, "update_mission_status")
            => /\ req'[w].res = "OK"
               /\ missions' = [missions EXCEPT ![req[w].id].status = req[w].arg]
               /\ UNCHANGED <<talent, users, roles, pitches, invites, notifications>>]_vars

\* The lead has just moved the only mission from Completed back to Proposed.
C30_Witness ==
    \E w \in Workers :
        /\ req[w].op = "update_mission_status" /\ req[w].res = "OK"
        /\ req[w].seen_status = "Completed"
        /\ Len(missions) = 1
        /\ missions[1].status = "Proposed"

\* C28: a login with an email no user has, with a password that does not
\* verify against the user's hash, or of a user without a hash ends as one
\* and the same Unauthorized response; every failed login is that response;
\* a login succeeds only as a user that has a hash, and no login changes the
\* store.
C28_LoginFailureHasOneShape ==
    [][\A w \in Workers :
         /\ \A email \in LoginEmails, password \in Passwords :
              (/\ \/ \A u \in UserIds : users[u].email # email
                  \/ \E u \in UserIds : /\ users[u].email = email
                                         /\ users[u].hashed_password = NoHash
                  \/ \E u \in UserIds : /\ users[u].email = email
                                         /\ users[u].hashed_password # get_password_hash(password)
               /\ login_for_access_token(w, email, password))
              => req'[w] = Unauthorized
         /\ (req[w].pc = "idle" /\ req'[w].op = "login_for_access_token")
            => /\ store' = store
               /\ req'[w].res \in {"OK", "Unauthorized"}
               /\ req'[w].res = "Unauthorized" => req'[w] = Unauthorized
               /\ req'[w].res = "OK"
                  => \E u \in UserIds : /\ users[u].email = req'[w].arg
                                         /\ users[u].hashed_password # NoHash]_vars

\* A login was just refused and another just succeeded, while a registered
\* user and a user without a hash are stored.
C28_Witness ==
    \E w, v \in Workers :
        /\ req[w] = Unauthorized
        /\ req[v].op = "login_for_access_token" /\ req[v].res = "OK" /\ req[v].arg = "e4"
        /\ \E u \in UserIds : users[u].hashed_password = NoHash

\* C31: with one request served at a time a role never has two Accepted
\* invites: an acceptance for a role that already has an Accepted invite
\* ends as Conflict with its invite Declined and the roles as they were.
C31_OneAcceptedInvitePerRole ==
    /\ [](\A r \in RoleIds : Cardinality(AcceptedOn(r)) <= 1)
    /\ [][\A w \in Workers :
            (/\ Commits(w, "respond_to_invite")
             /\ req[w].arg = "Accepted"
             /\ AcceptedOn(RoleOf(req[w].id)) # {})
            => /\ invites'[req[w].id].status = "Declined"
               /\ req'[w].res = "Conflict"
               /\ roles' = roles]_vars

\* Two users were invited to the same role; one invite is Accepted and the
\* acceptance of the other has just been refused and left it Declined.
C31_Witness ==
    \E w \in Workers, i, j \in InviteIds :
        /\ req[w] = Done("respond_to_invite", "Conflict")
        /\ RoleOf(i) = RoleOf(j)
        /\ invites[i].status = "Accepted"
        /\ invites[j].status = "Declined"
        /\ roles[RoleOf(i)].assignee_user_id = invites[i].invited_user_id

\* C32 as stated: the role of every Accepted invite is held by the invite's
\* invited user.
C32_AcceptedInviteHoldsRole ==
    \A i \in InviteIds :
        invites[i].status = "Accepted"
        => roles[RoleOf(i)].assignee_user_id = invites[i].invited_user_id

\* C32 amended: the step that marks an invite Accepted makes the invited
\* user the role's assignee; the role of an Accepted invite always has an
\* assignee; and that assignee is the invited user until the lead's draft of
\* another user on that role commits.
C32_AcceptedInviteHoldsRoleUntilRedraft ==
    /\ [](\A i \in InviteIds :
            invites[i].status = "Accepted" => roles[RoleOf(i)].assignee_user_id # NULL)
    /\ [][\A i \in InviteIds :
            /\ (invites[i].status # "Accepted" /\ invites'[i].status = "Accepted")
               => roles'[RoleOf(i)].assignee_user_id = invites[i].invited_user_id
            /\ (/\ invites[i].status = "Accepted"
                /\ roles[RoleOf(i)].assignee_user_id = invites[i].invited_user_id
                /\ roles'[RoleOf(i)].assignee_user_id # invites[i].invited_user_id)
               => \E w \in Workers :
                    /\ Commits(w, "draft_user_for_role")
                    /\ req[w].id = RoleOf(i)
                    /\ req[w].user = LeadOf(RoleOf(i))
                    /\ roles'[RoleOf(i)].assignee_user_id = req[w].target]_vars

\* The invited user accepted and holds the role, and the acceptance has
\* just been answered.
C32_Witness ==
    \E w \in Workers, i \in InviteIds :
        /\ req[w] = Done("respond_to_invite", "OK")
        /\ invites[i].status = "Accepted"
        /\ roles[RoleOf(i)].assignee_user_id = invites[i].invited_user_id

\* C33: no role is removed and a role that has an assignee has one in every
\* later state; with one request at a time the assignee of a filled role is
\* replaced only by the commit of a draft of the mission's lead, by the
\* drafted user.
C33_AssigneeNeverCleared ==
    [][/\ Len(roles') >= Len(roles)
       /\ \A r \in RoleIds :
            roles[r].assignee_user_id # NULL
            => /\ roles'[r].assignee_user_id # NULL
               /\ roles'[r].assignee_user_id # roles[r].assignee_user_id
                  => \E w \in Workers :
                       /\ Commits(w, "draft_user_for_role")
                       /\ req[w].id = r
                       /\ req[w].user = LeadOf(r)
                       /\ roles'[r].assignee_user_id = req[w].target]_vars

\* A role filled by an acceptance was redrafted to another user: the invite
\* is Accepted and the role is held by a user other than the invited one.
C33_Witness ==
    \E w \in Workers, i \in InviteIds :
        /\ req[w] = Done("draft_user_for_role", "OK")
        /\ invites[i].status = "Accepted"
        /\ roles[RoleOf(i)].assignee_user_id \notin {NULL, invites[i].invited_user_id}

\* C34: the notification update_pitch_status adds says accepted exactly
\* when the pitch is left Accepted and rejected exactly when it is left
\* Rejected; in particular no pitch is left Submitted with its pitcher told
\* that it was rejected.
C34_NotificationMatchesPitchStatus ==
    [][\A w \in Workers :
         Commits(w, "update_pitch_status")
         => LET p == req[w].id
                kind == notifications'[Len(notifications')].message.kind
            IN  /\ Len(notifications') = Len(notifications) + 1
                /\ kind = "pitch_accepted" <=> pitches'[p].status = "Accepted"
                /\ kind = "pitch_rejected" <=> pitches'[p].status = "Rejected"]_vars

====
